---- MODULE Spec2Model ----
(***************************************************************************)
(* ZINI, a minimalistic INI parser for C (src/Multi-File/zini.c, zini.h).  *)
(*                                                                         *)
(* A C string is a sequence of one-character strings; NULL is a sequence   *)
(* whose single element is no character, so it equals no C string.  The    *)
(* document is the INIFILE structure: the sections array (a sequence of    *)
(* Section records) and the isModified flag.  A Section record holds the   *)
(* name, the pairs visible through pairCount, and the state of the block   *)
(* its pairs pointer points at: "null" (never allocated), "live", or       *)
(* "freed" (free() was called and the pointer was left dangling).          *)
(* realloc is taken to succeed.                                            *)
(***************************************************************************)
EXTENDS Integers, Sequences, FiniteSets, TLC

VARIABLES
    sections,     \* iniFile->sections[0 .. sectionCount-1]
    isModified,   \* iniFile->isModified
    disk,         \* content of the file at PathFile, or NoFile
    crashed,      \* the process has died (NULL dereference, abort in free)
    fault,        \* the memory faults the last call executed
    last,         \* history: the last call, its arguments and what it returned
    synced,       \* history: what Print emitted at the last successful Open/Save
    pure          \* history: only AddSection/AddPair/Save have touched the document

vars == <<sections, isModified, disk, crashed, fault, last, synced, pure>>

----------------------------------------------------------------------------
(* Program constants: zini.h lines 4-7.                                    *)
MAX_SECTION_LENGTH == 128
MAX_KEY_LENGTH == 128
MAX_VALUE_LENGTH == 128
MAX_LINE_LENGTH == MAX_KEY_LENGTH + MAX_VALUE_LENGTH + 2

(* Bounds of the model.                                                    *)
MaxSections == 2
MaxPairs == 2
MaxLines == 4
MaxLongLines == 3

NL == "\n"
NULL == <<"NULL">>
NoFile == <<"ENOENT">>
RetTrue == <<"true">>
RetFalse == <<"false">>
RetVoid == <<"void">>
RetPtr == <<"ptr">>
RetWarned == <<"void", "warned">>   \* a plain return after the warning of ZINI_Clean
Untracked == <<"untracked">>

PathFile == <<"file">>         \* a path that can be opened for reading and writing
PathMissing == <<"missing">>   \* a path in a directory that does not exist: ENOENT
PathDenied == <<"denied">>     \* a path fopen refuses with EACCES

Min(a, b) == IF a < b THEN a ELSE b

Rep(c, n) == [i \in 1..n |-> c]

----------------------------------------------------------------------------
(* libc helpers as the code uses them.                                     *)

\* strchr(s, c) / strcspn(s, c): the index of the first c in s, 0 when none.
StrChr(s, c) ==
    LET hits == {i \in 1..Len(s) : s[i] = c}
    IN IF hits = {} THEN 0 ELSE CHOOSE i \in hits : \A j \in hits : i <= j

\* strncpy(dst, src, n - 1); dst[n - 1] = '\0'
StrNCpy(src, n) == SubSeq(src, 1, Min(Len(src), n - 1))

----------------------------------------------------------------------------
(* The data model.                                                         *)

Pair(k, v) == [key |-> k, value |-> v]

\* ZINI_Init
EmptyDoc == <<>>

\* ZINI_AddSection lines 102-107: the new slot
NewSection(name) ==
    [section |-> StrNCpy(name, MAX_SECTION_LENGTH), pairs |-> <<>>, mem |-> "null"]

\* ZINI_AddPair lines 117-128 on one Section: realloc, then the truncating copies
NewPair(key, value) == Pair(StrNCpy(key, MAX_KEY_LENGTH), StrNCpy(value, MAX_VALUE_LENGTH))

AddPairTo(sec, key, value) ==
    [sec EXCEPT !.pairs = Append(@, NewPair(key, value)), !.mem = "live"]

\* realloc(section->pairs, ...) on a pointer that free() already released
AddPairFaults(sec) == IF sec.mem = "freed" THEN {"realloc_freed"} ELSE {}

\* ZINI_FindSection lines 138-144: index of the first section with that name, 0 = NULL
FindSection(secs, name) ==
    IF \E i \in 1..Len(secs) : secs[i].section = name
    THEN CHOOSE i \in 1..Len(secs) :
             secs[i].section = name /\ \A j \in 1..(i - 1) : secs[j].section # name
    ELSE 0

\* the loop of ZINI_GetValue / ZINI_KeyExists: index of the first pair with that key
FirstKey(sec, key) ==
    IF \E i \in 1..Len(sec.pairs) : sec.pairs[i].key = key
    THEN CHOOSE i \in 1..Len(sec.pairs) :
             sec.pairs[i].key = key /\ \A j \in 1..(i - 1) : sec.pairs[j].key # key
    ELSE 0

\* ZINI_GetValue lines 153-158
GetValue(sec, key) ==
    IF FirstKey(sec, key) = 0 THEN NULL ELSE sec.pairs[FirstKey(sec, key)].value

\* ZINI_KeyExists lines 263-267
KeyExists(sec, key) == FirstKey(sec, key) # 0

\* the same loop leaving at the first match
SetValueFirst(sec, key, newValue) ==
    [sec EXCEPT !.pairs =
        [i \in 1..Len(sec.pairs) |->
            IF i = FirstKey(sec, key)
            THEN Pair(sec.pairs[i].key, StrNCpy(newValue, MAX_VALUE_LENGTH))
            ELSE sec.pairs[i]]]

\* ZINI_SetValue lines 214-219: the loop has no break
SetValueIn(sec, key, newValue) ==
    [sec EXCEPT !.pairs =
        [i \in 1..Len(sec.pairs) |->
            IF sec.pairs[i].key = key
            THEN Pair(sec.pairs[i].key, StrNCpy(newValue, MAX_VALUE_LENGTH))
            ELSE sec.pairs[i]]]

\* ZINI_RemovePair lines 193-198
RemovePairIn(sec, key) ==
    [sec EXCEPT !.pairs =
        [i \in 1..Len(sec.pairs) |->
            IF sec.pairs[i].key = key THEN Pair(<<>>, <<>>) ELSE sec.pairs[i]]]

\* the same without the write to sec->section[0]
RemoveSectionKeepName(sec) ==
    [section |-> sec.section, pairs |-> <<>>,
     mem |-> IF sec.mem = "null" THEN "null" ELSE "freed"]

\* ZINI_RemoveSection lines 242-244: free(sec->pairs) leaves the pointer as it was
RemoveSectionIn(sec) ==
    [section |-> <<>>, pairs |-> <<>>,
     mem |-> IF sec.mem = "null" THEN "null" ELSE "freed"]

RemoveSectionFaults(sec) == IF sec.mem = "freed" THEN {"double_free"} ELSE {}

\* ZINI_Clean lines 179-181: free() of every section's pairs pointer
CleanFaults(secs) ==
    IF \E i \in 1..Len(secs) : secs[i].mem = "freed" THEN {"double_free"} ELSE {}

----------------------------------------------------------------------------
(* ZINI_Print lines 276-288.                                               *)

RECURSIVE PrintPairs(_)
PrintPairs(pairs) ==
    IF pairs = <<>> THEN <<>>
    ELSE (IF Head(pairs).key # <<>> \/ Head(pairs).value # <<>>
          THEN Head(pairs).key \o <<"=">> \o Head(pairs).value \o <<NL>>
          ELSE <<>>) \o PrintPairs(Tail(pairs))

PrintSection(sec) ==
    IF sec.section # <<>>
    THEN <<"[">> \o sec.section \o <<"]", NL>> \o PrintPairs(sec.pairs) \o <<NL>>
    ELSE <<>>

RECURSIVE PrintText(_)
PrintText(secs) ==
    IF secs = <<>> THEN <<>> ELSE PrintSection(Head(secs)) \o PrintText(Tail(secs))

----------------------------------------------------------------------------
(* ZINI_Open lines 29-61: the read loop.                                   *)

\* fgets(line, MAX_LINE_LENGTH, file): how many characters one call consumes
FGetsLen(text) ==
    LET lim == Min(Len(text), MAX_LINE_LENGTH - 1)
        nl == StrChr(SubSeq(text, 1, lim), NL)
    IN IF nl > 0 THEN nl ELSE lim

\* the same without the write of the terminator
KeepNL(chunk) == chunk

\* line[strcspn(line, "\n")] = 0
StripNL(chunk) ==
    IF StrChr(chunk, NL) > 0 THEN SubSeq(chunk, 1, StrChr(chunk, NL) - 1) ELSE chunk

\* One pass of the loop body on a line, from the parse state
\* st = [secs, cur, added, faults]: cur is currentSection (0 = NULL), added says
\* ZINI_AddSection ran (it sets isModified).
ParseLine(st, line) ==
    IF line = <<>> \/ line[1] = ";" THEN st
    ELSE IF line[1] = "["
    THEN LET end == StrChr(line, "]") IN
         IF end = 0 THEN st
         ELSE LET name == SubSeq(line, 2, end - 1)
                  found == FindSection(st.secs, name)
              IN IF found = 0
                 THEN [st EXCEPT !.secs = Append(@, NewSection(name)),
                                 !.cur = Len(st.secs) + 1,
                                 !.added = TRUE]
                 ELSE [st EXCEPT !.cur = found]
    ELSE LET delimiter == StrChr(line, "=") IN
         IF delimiter = 0 \/ st.cur = 0 THEN st
         ELSE [st EXCEPT
                 !.secs[st.cur] = AddPairTo(@, SubSeq(line, 1, delimiter - 1),
                                            SubSeq(line, delimiter + 1, Len(line))),
                 !.faults = @ \cup AddPairFaults(st.secs[st.cur])]

RECURSIVE ParseText(_, _)
ParseText(st, text) ==
    IF text = <<>> THEN st
    ELSE LET n == FGetsLen(text) IN
         ParseText(ParseLine(st, StripNL(SubSeq(text, 1, n))),
                   SubSeq(text, n + 1, Len(text)))

\* The document ZINI_Open leaves when the file holds text
OpenText(secs, text) ==
    ParseText([secs |-> secs, cur |-> 0, added |-> FALSE, faults |-> {}], text)

----------------------------------------------------------------------------
(* Calls.  A Section* argument is an index into sections, 0 for NULL; dnull *)
(* says the INIFILE* argument is NULL.  A call with a NULL argument is      *)
(* recorded without its other arguments.                                   *)

NoArg == <<>>

Call(op, nullarg, sec, name, key, value, ret) ==
    IF nullarg
    THEN [op |-> op, nullarg |-> TRUE, sec |-> 0, name |-> NoArg, key |-> NoArg,
          value |-> NoArg, ret |-> ret]
    ELSE [op |-> op, nullarg |-> FALSE, sec |-> sec, name |-> name, key |-> key,
          value |-> value, ret |-> ret]

\* What a memory fault can do to the process: abort it, or go unnoticed.
Outcomes(faults) == IF faults = {} THEN {FALSE} ELSE {TRUE, FALSE}

RECURSIVE TotalPairs(_)
TotalPairs(secs) ==
    IF secs = <<>> THEN 0 ELSE Len(Head(secs).pairs) + TotalPairs(Tail(secs))

InBounds(secs) == Len(secs) <= MaxSections /\ TotalPairs(secs) <= MaxPairs

Init ==
    /\ sections = EmptyDoc
    /\ isModified = FALSE
    /\ disk = NoFile
    /\ crashed = FALSE
    /\ fault = {}
    /\ last = Call("ZINI_Init", FALSE, 0, NoArg, NoArg, NoArg, RetVoid)
    /\ synced = Untracked
    /\ pure = TRUE

\* The same, with the history of the synchronised text kept.
InitSync ==
    /\ sections = EmptyDoc
    /\ isModified = FALSE
    /\ disk = NoFile
    /\ crashed = FALSE
    /\ fault = {}
    /\ last = Call("ZINI_Init", FALSE, 0, NoArg, NoArg, NoArg, RetVoid)
    /\ synced = <<>>
    /\ pure = TRUE

\* A call that changes nothing but what it returns.
Returns(c) ==
    /\ last' = c
    /\ fault' = {}
    /\ UNCHANGED <<sections, isModified, disk, crashed>>

\* A call that dereferences NULL.
Segfault(c) ==
    /\ crashed' = TRUE
    /\ fault' = {"null_deref"}
    /\ last' = c
    /\ UNCHANGED <<sections, isModified, disk>>

\* the same reporting a missing file like any other failure
FOpenReadNoEnoent(filename, file) ==
    IF filename = PathFile /\ file # NoFile THEN "ok" ELSE "EACCES"

\* fopen(filename, "r") at ZINI_Open line 22: "ok", or the errno it fails with
FOpenRead(filename, file) ==
    IF filename = PathMissing \/ (filename = PathFile /\ file = NoFile) THEN "ENOENT"
    ELSE IF filename = PathDenied THEN "EACCES"
    ELSE "ok"

\* the same never failing
FOpenWriteAlways(filename) == TRUE

\* fopen(filename, "w") at ZINI_Save line 67 succeeds
FOpenWrite(filename) == filename = PathFile

----------------------------------------------------------------------------
(* The operations.                                                         *)

\* zini.c lines 16-64
ZINI_Open(dnull, filename) ==
    LET c(ret) == Call("ZINI_Open", dnull \/ filename = NULL, 0, filename, NoArg, NoArg, ret)
    IN
    /\ ~crashed
    /\ IF dnull \/ filename = NULL
       THEN Returns(c(RetFalse))
       ELSE IF FOpenRead(filename, disk) = "ENOENT"
       THEN Returns(c(RetTrue))
       ELSE IF FOpenRead(filename, disk) # "ok"
       THEN Returns(c(RetFalse))
       ELSE LET st == OpenText(sections, disk) IN
            /\ sections = EmptyDoc \/ InBounds(st.secs)
            /\ \E dies \in Outcomes(st.faults) :
                 /\ crashed' = dies
                 /\ fault' = st.faults
                 /\ sections' = st.secs
                 /\ isModified' = (isModified \/ st.added)
                 /\ last' = c(IF dies THEN RetVoid ELSE RetTrue)
                 /\ UNCHANGED disk

\* zini.c lines 66-89: fopen comes first, then ZINI_Print, then the flag
ZINI_Save(dnull, filename) ==
    LET c(ret) == Call("ZINI_Save", dnull \/ filename = NULL, 0, filename, NoArg, NoArg, ret)
    IN
    /\ ~crashed
    /\ IF filename = NULL
       THEN \* fopen(NULL, "w") is undefined: it faults, or fails
            \E dies \in BOOLEAN :
              /\ crashed' = dies
              /\ fault' = {"null_filename"}
              /\ last' = c(IF dies THEN RetVoid ELSE RetFalse)
              /\ UNCHANGED <<sections, isModified, disk>>
       ELSE IF ~FOpenWrite(filename)
       THEN Returns(c(RetFalse))
       ELSE IF dnull
       THEN \* the file is truncated, ZINI_Print returns, iniFile->isModified faults
            /\ disk' = <<>>
            /\ crashed' = TRUE
            /\ fault' = {"null_deref"}
            /\ last' = c(RetVoid)
            /\ UNCHANGED <<sections, isModified>>
       ELSE /\ disk' = PrintText(sections)
            /\ isModified' = FALSE
            /\ last' = c(RetTrue)
            /\ fault' = {}
            /\ UNCHANGED <<sections, crashed>>

\* zini.c lines 91-110
ZINI_AddSection(dnull, section) ==
    LET c(sec, ret) == Call("ZINI_AddSection", dnull \/ section = NULL, sec, section,
                            NoArg, NoArg, ret)
    IN
    /\ ~crashed
    /\ IF dnull \/ section = NULL
       THEN Returns(c(0, NULL))
       ELSE /\ Len(sections) < MaxSections
            /\ sections' = Append(sections, NewSection(section))
            /\ isModified' = TRUE
            /\ last' = c(Len(sections) + 1, RetPtr)
            /\ fault' = {}
            /\ UNCHANGED <<disk, crashed>>

\* zini.c lines 112-130
ZINI_AddPair(section, key, value) ==
    LET isnull == section = 0 \/ key = NULL \/ value = NULL
        c(ret) == Call("ZINI_AddPair", isnull, section, NoArg, key, value, ret)
    IN
    /\ ~crashed
    /\ IF isnull
       THEN Returns(c(NULL))
       ELSE /\ TotalPairs(sections) < MaxPairs
            /\ \E dies \in Outcomes(AddPairFaults(sections[section])) :
                 /\ crashed' = dies
                 /\ fault' = AddPairFaults(sections[section])
                 /\ sections' = IF dies THEN sections
                                ELSE [sections EXCEPT ![section] = AddPairTo(@, key, value)]
                 /\ last' = c(IF dies THEN RetVoid ELSE RetPtr)
                 /\ UNCHANGED <<isModified, disk>>

\* zini.c lines 132-145
ZINI_FindSection(dnull, section) ==
    LET isnull == dnull \/ section = NULL
        found == IF isnull THEN 0 ELSE FindSection(sections, section)
    IN
    /\ ~crashed
    /\ Returns(Call("ZINI_FindSection", isnull, found, section, NoArg, NoArg,
                    IF found = 0 THEN NULL ELSE RetPtr))

\* zini.c lines 147-159
ZINI_GetValue(section, key) ==
    LET isnull == section = 0 \/ key = NULL IN
    /\ ~crashed
    /\ Returns(Call("ZINI_GetValue", isnull, section, NoArg, key, NoArg,
                    IF isnull THEN NULL ELSE GetValue(sections[section], key)))

\* zini.c lines 161-173: the loop runs sectionCount times over the same lookup,
\* and ZINI_GetValue answers NULL for the NULL section of a name not found
ZINI_GetValueEx(dnull, section, key) ==
    LET isnull == dnull \/ key = NULL \/ section = NULL
        found == IF isnull THEN 0 ELSE FindSection(sections, section)
    IN
    /\ ~crashed
    /\ Returns(Call("ZINI_GetValueEx", isnull, found, section, key, NoArg,
                    IF isnull \/ Len(sections) = 0 \/ found = 0 THEN NULL
                    ELSE GetValue(sections[found], key)))

\* zini.c lines 209-220: newValue is not checked; strncpy reads it once a key matches
ZINI_SetValue(section, key, newValue) ==
    LET isnull == section = 0 \/ key = NULL
        c(na) == Call("ZINI_SetValue", na, section, NoArg, key, newValue, RetVoid)
    IN
    /\ ~crashed
    /\ IF isnull
       THEN Returns(c(TRUE))
       ELSE IF newValue = NULL
       THEN IF KeyExists(sections[section], key)
            THEN Segfault(c(TRUE))
            ELSE Returns(c(TRUE))
       ELSE /\ sections' = [sections EXCEPT ![section] = SetValueIn(@, key, newValue)]
            /\ last' = c(FALSE)
            /\ fault' = {}
            /\ UNCHANGED <<isModified, disk, crashed>>

\* zini.c lines 222-229: ZINI_SetValue returns at once on the NULL section of a
\* name not found
ZINI_SetValueEx(dnull, section, key, newValue) ==
    LET isnull == dnull \/ key = NULL \/ section = NULL
        found == IF isnull THEN 0 ELSE FindSection(sections, section)
        c(na) == Call("ZINI_SetValueEx", na, found, section, key, newValue, RetVoid)
    IN
    /\ ~crashed
    /\ IF isnull
       THEN Returns(c(TRUE))
       ELSE IF found = 0
       THEN Returns(c(newValue = NULL))
       ELSE IF newValue = NULL
       THEN IF KeyExists(sections[found], key)
            THEN Segfault(c(TRUE))
            ELSE Returns(c(TRUE))
       ELSE /\ sections' = [sections EXCEPT ![found] = SetValueIn(@, key, newValue)]
            /\ last' = c(FALSE)
            /\ fault' = {}
            /\ UNCHANGED <<isModified, disk, crashed>>

\* zini.c lines 187-199
ZINI_RemovePair(section, key) ==
    LET isnull == section = 0 \/ key = NULL
        c == Call("ZINI_RemovePair", isnull, section, NoArg, key, NoArg, RetVoid)
    IN
    /\ ~crashed
    /\ IF isnull
       THEN Returns(c)
       ELSE /\ sections' = [sections EXCEPT ![section] = RemovePairIn(@, key)]
            /\ last' = c
            /\ fault' = {}
            /\ UNCHANGED <<isModified, disk, crashed>>

\* zini.c lines 201-207
ZINI_RemovePairEx(dnull, section, key) ==
    LET isnull == dnull \/ key = NULL \/ section = NULL
        found == IF isnull THEN 0 ELSE FindSection(sections, section)
        c == Call("ZINI_RemovePairEx", isnull, found, section, key, NoArg, RetVoid)
    IN
    /\ ~crashed
    /\ IF isnull \/ found = 0
       THEN Returns(c)
       ELSE /\ sections' = [sections EXCEPT ![found] = RemovePairIn(@, key)]
            /\ last' = c
            /\ fault' = {}
            /\ UNCHANGED <<isModified, disk, crashed>>

\* zini.c lines 231-245
ZINI_RemoveSection(dnull, section) ==
    LET isnull == dnull \/ section = NULL
        sec == IF isnull THEN 0 ELSE FindSection(sections, section)
        c == Call("ZINI_RemoveSection", isnull, sec, section, NoArg, NoArg, RetVoid)
    IN
    /\ ~crashed
    /\ IF isnull \/ sec = 0
       THEN Returns(c)
       ELSE \E dies \in Outcomes(RemoveSectionFaults(sections[sec])) :
              /\ crashed' = dies
              /\ fault' = RemoveSectionFaults(sections[sec])
              /\ sections' = IF dies THEN sections
                             ELSE [sections EXCEPT ![sec] = RemoveSectionIn(@)]
              /\ last' = c
              /\ UNCHANGED <<isModified, disk>>

\* zini.c lines 247-256
ZINI_SectionExists(dnull, section) ==
    LET isnull == dnull \/ section = NULL
        found == IF isnull THEN 0 ELSE FindSection(sections, section)
    IN
    /\ ~crashed
    /\ Returns(Call("ZINI_SectionExists", isnull, found, section, NoArg, NoArg,
                    IF found = 0 THEN RetFalse ELSE RetTrue))

\* zini.c lines 258-268
ZINI_KeyExists(section, key) ==
    LET isnull == section = 0 \/ key = NULL IN
    /\ ~crashed
    /\ Returns(Call("ZINI_KeyExists", isnull, section, NoArg, key, NoArg,
                    IF ~isnull /\ KeyExists(sections[section], key)
                    THEN RetTrue ELSE RetFalse))

\* zini.c lines 270-289: what reaches the stream is PrintText(sections)
ZINI_Print(dnull, streamnull) ==
    /\ ~crashed
    /\ Returns(Call("ZINI_Print", dnull \/ streamnull, 0, NoArg, NoArg, NoArg, RetVoid))

\* zini.c lines 176-185: the warning is printed when isModified is set, and
\* isModified is left as it was
ZINI_Clean(dnull) ==
    LET c == Call("ZINI_Clean", dnull, 0, NoArg, NoArg, NoArg,
                  IF ~dnull /\ isModified THEN RetWarned ELSE RetVoid) IN
    /\ ~crashed
    /\ IF dnull
       THEN Returns(c)
       ELSE \E dies \in Outcomes(CleanFaults(sections)) :
              /\ crashed' = dies
              /\ fault' = CleanFaults(sections)
              /\ sections' = IF dies THEN sections ELSE EmptyDoc
              /\ last' = c
              /\ UNCHANGED <<isModified, disk>>

----------------------------------------------------------------------------
(* History of a behaviour, kept beside the program's state.                *)

BuildOps == {"ZINI_Init", "ZINI_AddSection", "ZINI_AddPair", "ZINI_Save"}

History ==
    /\ pure' = (pure /\ last'.op \in BuildOps /\ ~last'.nullarg)
    /\ synced' = IF synced # Untracked /\ last'.ret = RetTrue
                                       /\ last'.op \in {"ZINI_Open", "ZINI_Save"}
                 THEN PrintText(sections')
                 ELSE synced

----------------------------------------------------------------------------
(* Callers.  Each specification is the program under a caller that draws   *)
(* its arguments from the given sets.                                      *)

Docs == {FALSE}             \* the INIFILE* of a caller that passes its document

Builders(D, N, K, V) ==
    \/ \E d \in D, n \in N : ZINI_AddSection(d, n) /\ History
    \/ \E s \in 0..Len(sections), k \in K, v \in V : ZINI_AddPair(s, k, v) /\ History

Editors(D, N, K, V) ==
    \/ \E s \in 0..Len(sections), k \in K, v \in V : ZINI_SetValue(s, k, v) /\ History
    \/ \E s \in 0..Len(sections), k \in K : ZINI_RemovePair(s, k) /\ History
    \/ \E d \in D, n \in N : ZINI_RemoveSection(d, n) /\ History
    \/ \E d \in D : ZINI_Clean(d) /\ History

Mutators(D, N, K, V) == Builders(D, N, K, V) \/ Editors(D, N, K, V)

ByName(D, N, K, V) ==
    \/ \E d \in D, n \in N, k \in K, v \in V : ZINI_SetValueEx(d, n, k, v) /\ History
    \/ \E d \in D, n \in N, k \in K : ZINI_RemovePairEx(d, n, k) /\ History

Queries(D, N, K) ==
    \/ \E d \in D, n \in N : ZINI_FindSection(d, n) /\ History
    \/ \E s \in 0..Len(sections), k \in K : ZINI_GetValue(s, k) /\ History
    \/ \E d \in D, n \in N, k \in K : ZINI_GetValueEx(d, n, k) /\ History
    \/ \E d \in D, n \in N : ZINI_SectionExists(d, n) /\ History
    \/ \E s \in 0..Len(sections), k \in K : ZINI_KeyExists(s, k) /\ History
    \/ \E d \in D, sn \in D : ZINI_Print(d, sn) /\ History

Files(D, P) ==
    \/ \E f \in P, d \in D : ZINI_Open(d, f) /\ History
    \/ \E f \in P, d \in D : ZINI_Save(d, f) /\ History

\* The in-memory interface.
SecNames == {<<>>, <<"A">>, <<"B">>}
Keys == {<<>>, <<"k">>, <<"j">>}
Values == {<<"v">>, <<"w">>}

Next == Mutators(Docs, SecNames, Keys, Values)

Spec == Init /\ [][Next]_vars

\* The interface with the file: a caller that loads, edits and saves.
FileNames == {<<"A">>, <<"B">>}
FileKeys == {<<"k">>}
FileValues == {<<"v">>}
Paths == {PathFile, PathMissing, PathDenied}

NextFile == Mutators(Docs, FileNames, FileKeys, FileValues) \/ Files(Docs, Paths)

SpecFile == Init /\ [][NextFile]_vars

\* The same caller with one name, one key and one value.
NextSync == Mutators(Docs, {<<"A">>}, {<<"k">>}, {<<"v">>}) \/ Files(Docs, {PathFile})

SpecSync == InitSync /\ [][NextSync]_vars

\* A caller that builds a document and saves it.
BuildNames == {<<"A">>, <<"B">>, <<"A", "]", "B">>}
BuildKeys == {<<"k">>, <<"k", "=", "j">>, <<";", "k">>, <<"[", "k">>}
BuildValues == {<<>>, <<"v">>, <<"w", "=">>, <<"v", NL, "w">>}

NextBuild ==
    \/ disk = NoFile /\ Builders(Docs, BuildNames, BuildKeys, BuildValues)
    \/ ZINI_Save(FALSE, PathFile) /\ History

SpecBuild == Init /\ [][NextBuild]_vars

\* A caller that opens a file somebody else wrote, of at most MaxLines lines.
SourceLines ==
    { <<"[", "A", "]">>, <<"[", "B", "]">>, <<"[">> \o Rep("A", MAX_SECTION_LENGTH) \o <<"]">>,
      <<"k", "=", "v">>, <<"j", "=", "w">>,
      <<"[", "A">>, <<";", "k", "=", "v">>, <<"k">>, <<>> }

RECURSIVE TextOf(_)
TextOf(lines) ==
    IF lines = <<>> THEN <<>> ELSE Head(lines) \o <<NL>> \o TextOf(Tail(lines))

SourceTexts == UNION {{TextOf(ls) : ls \in [1..n -> SourceLines]} : n \in 0..MaxLines}

InitSource ==
    /\ sections = EmptyDoc
    /\ isModified = FALSE
    /\ disk \in SourceTexts
    /\ crashed = FALSE
    /\ fault = {}
    /\ last = Call("ZINI_Init", FALSE, 0, NoArg, NoArg, NoArg, RetVoid)
    /\ synced = Untracked
    /\ pure = TRUE

NextSource == ZINI_Open(FALSE, PathFile) /\ History

SpecSource == InitSource /\ [][NextSource]_vars

\* Every operation, under a caller that may pass NULL for any argument.
MaybeNull(S) == S \cup {NULL}

NextNull ==
    \/ Mutators(BOOLEAN, MaybeNull({<<"A">>}), MaybeNull({<<"k">>}), MaybeNull({<<"v">>}))
    \/ ByName(BOOLEAN, MaybeNull({<<"A">>}), MaybeNull({<<"k">>}), MaybeNull({<<"v">>}))
    \/ Queries(BOOLEAN, MaybeNull({<<"A">>}), MaybeNull({<<"k">>}))
    \/ Files(BOOLEAN, MaybeNull({PathFile}))

SpecNull == Init /\ [][NextNull]_vars

\* A caller that edits through section pointers and through section names.
EditNames == {<<>>, <<"A">>, <<"B">>}
EditKeys == {<<>>, <<"k">>}
EditValues == {<<"v">>, <<"w">>}

NextByName ==
    \/ Mutators(Docs, {<<"A">>}, EditKeys, EditValues)
    \/ ByName(Docs, EditNames, EditKeys, EditValues)

SpecByName == Init /\ [][NextByName]_vars

\* A caller that passes strings of the bounds' lengths and longer, and opens a
\* file that holds them.
LongNames == {<<"A">>, Rep("A", MAX_SECTION_LENGTH - 1), Rep("A", MAX_SECTION_LENGTH)}
LongKeys == {<<"k">>, Rep("k", MAX_KEY_LENGTH)}
LongValues == {<<"v">>, Rep("v", MAX_VALUE_LENGTH - 1), Rep("v", MAX_VALUE_LENGTH + 1)}

LongText ==
    TextOf(<< <<"[">> \o Rep("B", MAX_SECTION_LENGTH + 1) \o <<"]">>,
              Rep("k", MAX_KEY_LENGTH) \o <<"=">> \o Rep("v", MAX_VALUE_LENGTH),
              <<"j", "=">> \o Rep("w", MAX_VALUE_LENGTH) >>)

InitLong ==
    /\ sections = EmptyDoc
    /\ isModified = FALSE
    /\ disk \in {NoFile, LongText}
    /\ crashed = FALSE
    /\ fault = {}
    /\ last = Call("ZINI_Init", FALSE, 0, NoArg, NoArg, NoArg, RetVoid)
    /\ synced = Untracked
    /\ pure = TRUE

NextLong ==
    \/ Mutators(Docs, LongNames, LongKeys, LongValues)
    \/ ZINI_Open(FALSE, PathFile) /\ History

SpecLong == InitLong /\ [][NextLong]_vars

\* A caller that opens a file with lines longer than the line buffer.
LongLines ==
    { <<"[", "A", "]">>, <<"k", "=", "v">>, <<>>,
      <<"k", "=">> \o Rep("v", MAX_LINE_LENGTH - 3),
      <<"k", "=">> \o Rep("v", MAX_LINE_LENGTH - 3) \o <<"=", "w">>,
      Rep("k", MAX_LINE_LENGTH - 1) \o <<"=", "v">>,
      <<"[">> \o Rep("A", MAX_LINE_LENGTH - 2) \o <<"]">>,
      Rep("x", MAX_LINE_LENGTH - 1) \o <<"[", "B", "]">> }

LongTexts == UNION {{TextOf(ls) : ls \in [1..n -> LongLines]} : n \in 0..MaxLongLines}

InitLongLines ==
    /\ sections = EmptyDoc
    /\ isModified = FALSE
    /\ disk \in LongTexts
    /\ crashed = FALSE
    /\ fault = {}
    /\ last = Call("ZINI_Init", FALSE, 0, NoArg, NoArg, NoArg, RetVoid)
    /\ synced = Untracked
    /\ pure = TRUE

NextLongLines == ZINI_Open(FALSE, PathFile) /\ History

SpecLongLines == InitLongLines /\ [][NextLongLines]_vars

----------------------------------------------------------------------------
(* Observations the properties are stated with.                            *)

\* The lines of a text, without their newlines.
RECURSIVE LinesOf(_)
LinesOf(text) ==
    IF text = <<>> THEN <<>>
    ELSE LET nl == StrChr(text, NL) IN
         IF nl = 0 THEN <<text>>
         ELSE <<SubSeq(text, 1, nl - 1)>> \o LinesOf(SubSeq(text, nl + 1, Len(text)))

IsPrefix(p, s) == Len(p) <= Len(s) /\ SubSeq(s, 1, Len(p)) = p

Tombstone(pair) == pair.key = <<>> /\ pair.value = <<>>

\* The pairs of a sequence that are not tombstones, in order.
RECURSIVE Visible(_)
Visible(pairs) ==
    IF pairs = <<>> THEN <<>>
    ELSE (IF Tombstone(Head(pairs)) THEN <<>> ELSE <<Head(pairs)>>) \o Visible(Tail(pairs))

\* The visible pairs held under a name, over all the sections of that name, in order.
RECURSIVE PairsUnder(_, _)
PairsUnder(secs, name) ==
    IF secs = <<>> THEN <<>>
    ELSE (IF Head(secs).section = name THEN Visible(Head(secs).pairs) ELSE <<>>)
         \o PairsUnder(Tail(secs), name)

NamesOf(secs) == {secs[i].section : i \in 1..Len(secs)} \ {<<>>}

CountNamed(secs, name) == Cardinality({i \in 1..Len(secs) : secs[i].section = name})

\* ZINI_Save to a path, then ZINI_Open of that path into a document fresh from ZINI_Init.
Reopen(secs) == OpenText(EmptyDoc, PrintText(secs)).secs

Did(op) == last.op = op /\ ~last.nullarg
Does(op) == last'.op = op /\ ~last'.nullarg /\ vars' # vars

----------------------------------------------------------------------------
(* C3: after RemovePair(s,k), for every section and every key: GetValue(s,k) *)
(* is absent, KeyExists(s,k) is false, Print emits no line for k in the    *)
(* section, and the section's pair count is what it was.                   *)
C3_RemovePairHides ==
    [][Does("ZINI_RemovePair") =>
         LET s == last'.sec
             k == last'.key
         IN /\ GetValue(sections'[s], k) = NULL
            /\ ~KeyExists(sections'[s], k)
            /\ \A line \in {LinesOf(PrintPairs(sections'[s].pairs))[i] :
                              i \in 1..Len(LinesOf(PrintPairs(sections'[s].pairs)))} :
                   ~IsPrefix(k \o <<"=">>, line)
            /\ Len(sections'[s].pairs) = Len(sections[s].pairs)]_vars

(* C4: lookups and updates treat tombstoned pairs as absent, for every key *)
(* including the empty one: GetValue and KeyExists never answer from a     *)
(* tombstoned pair, SetValue never writes into one, and a tombstoned pair  *)
(* never shows in what Print emits afterwards.                             *)
C4_LookupSkipsTombstones ==
    \A s \in 1..Len(sections), k \in Keys :
        /\ GetValue(sections[s], k) # NULL =>
              ~Tombstone(sections[s].pairs[FirstKey(sections[s], k)])
        /\ KeyExists(sections[s], k) =>
              \E i \in 1..Len(sections[s].pairs) :
                  sections[s].pairs[i].key = k /\ ~Tombstone(sections[s].pairs[i])

C4_TombstonesStay ==
    [][\A s \in 1..Len(sections) : \A i \in 1..Len(sections[s].pairs) :
          (/\ Tombstone(sections[s].pairs[i])
           /\ last'.op \in {"ZINI_SetValue", "ZINI_AddPair", "ZINI_RemovePair"})
          => Tombstone(sections'[s].pairs[i])]_vars

C4_TombstonesAbsent == []C4_LookupSkipsTombstones /\ C4_TombstonesStay

(* C5 as stated: SetValue(s,k,v) overwrites the first pair with key k only; *)
(* every other pair, later pairs with key k included, keeps key and value. *)
C5_SetValueFirstOnly ==
    [][(Does("ZINI_SetValue") /\ FirstKey(sections[last'.sec], last'.key) # 0) =>
         sections'[last'.sec].pairs =
            [sections[last'.sec].pairs EXCEPT
                ![FirstKey(sections[last'.sec], last'.key)].value =
                    StrNCpy(last'.value, MAX_VALUE_LENGTH)]]_vars

(* C5 amended: SetValue(s,k,v) overwrites the value of every pair of the   *)
(* section whose key is k, in place; every pair with another key keeps its *)
(* key and value, no key changes, and the pair count is unchanged.         *)
C5_SetValueEveryMatch ==
    [][Does("ZINI_SetValue") =>
         LET old == sections[last'.sec].pairs
             new == sections'[last'.sec].pairs
         IN /\ Len(new) = Len(old)
            /\ \A i \in 1..Len(old) :
                 /\ new[i].key = old[i].key
                 /\ new[i].value = IF old[i].key = last'.key
                                   THEN StrNCpy(last'.value, MAX_VALUE_LENGTH)
                                   ELSE old[i].value
            /\ \A t \in 1..Len(sections) : t # last'.sec => sections'[t] = sections[t]]_vars

\* SetValue has acted on a section holding two pairs with its key and a new value.
C5_Witness ==
    /\ Did("ZINI_SetValue")
    /\ Len(sections[last.sec].pairs) = 2
    /\ \A i \in 1..2 : sections[last.sec].pairs[i] = Pair(<<"k">>, <<"w">>)
    /\ last.key = <<"k">> /\ last.value = <<"w">>

(* C8: Clean, called from any state and then again, frees no block twice,  *)
(* uses no freed block, and leaves no sections after each of the calls.    *)
C8_CleanTwice ==
    Did("ZINI_Clean") => fault = {} /\ ~crashed /\ sections = EmptyDoc

(* C7 as stated: after RemoveSection(doc,name) with a section of that name *)
(* present (an empty name marks a removed section, so the name is not      *)
(* empty), SectionExists(doc,name) is false, Print emits no [name] header, *)
(* Save then Open into a fresh document gives no section of that name and  *)
(* every other name keeps its pairs, and the section count is unchanged.   *)
RemovedFor(name) ==
    /\ FindSection(sections', name) = 0
    /\ \A i \in 1..Len(LinesOf(PrintText(sections'))) :
           LinesOf(PrintText(sections'))[i] # <<"[">> \o name \o <<"]">>
    /\ FindSection(Reopen(sections'), name) = 0
    /\ \A other \in NamesOf(sections) \ {name} :
           PairsUnder(Reopen(sections'), other) = PairsUnder(sections, other)
    /\ Len(sections') = Len(sections)

C7_RemoveSectionGone ==
    [][(/\ Does("ZINI_RemoveSection") /\ last'.sec # 0
        /\ last'.name # <<>>) => RemovedFor(last'.name)]_vars

(* C7 amended: the same, when exactly one section bears the name (names,   *)
(* keys and values holding none of the file format's delimiters);          *)
(* RemoveSection removes the first section of the name and no other.       *)
C7_RemoveOnlySectionGone ==
    [][(/\ Does("ZINI_RemoveSection") /\ last'.sec # 0
        /\ last'.name # <<>>
        /\ CountNamed(sections, last'.name) = 1) => RemovedFor(last'.name)]_vars

\* RemoveSection has removed the only section A, which held a pair, beside a
\* section B that holds a pair.
C7_Witness ==
    /\ Did("ZINI_RemoveSection") /\ last.name = <<"A">> /\ last.sec = 1
    /\ sections[1].mem = "freed"
    /\ FindSection(sections, <<"A">>) = 0
    /\ Len(sections) = 2 /\ sections[2].section = <<"B">>
    /\ Len(sections[2].pairs) = 1

----------------------------------------------------------------------------
(* C1 as stated: a document built by AddSection and AddPair alone, with    *)
(* non-empty names and keys, comes back from Save then Open into a fresh   *)
(* document with the same section names, each name holding the same pairs  *)
(* in the same order.                                                      *)
SameByName(a, b) ==
    /\ NamesOf(a) = NamesOf(b)
    /\ \A n \in NamesOf(b) : PairsUnder(a, n) = PairsUnder(b, n)

NonEmptyNamesAndKeys(secs) ==
    \A i \in 1..Len(secs) :
        /\ secs[i].section # <<>>
        /\ \A j \in 1..Len(secs[i].pairs) : secs[i].pairs[j].key # <<>>

Saved == Did("ZINI_Save") /\ last.ret = RetTrue /\ pure

C1_RoundTrip ==
    (Saved /\ NonEmptyNamesAndKeys(sections)) =>
        SameByName(OpenText(EmptyDoc, disk).secs, sections)

(* C1 amended: the same, when no section name holds "]" or a newline, no   *)
(* key holds "=" or a newline or begins with "[" or ";", and no value      *)
(* holds a newline; when moreover the names are distinct, the reopened     *)
(* document has the same sections in the same order.                       *)
Has(s, c) == \E i \in 1..Len(s) : s[i] = c

Writable(secs) ==
    \A i \in 1..Len(secs) :
        /\ ~Has(secs[i].section, "]") /\ ~Has(secs[i].section, NL)
        /\ \A j \in 1..Len(secs[i].pairs) :
             LET p == secs[i].pairs[j] IN
             /\ ~Has(p.key, "=") /\ ~Has(p.key, NL)
             /\ p.key[1] \notin {"[", ";"}
             /\ ~Has(p.value, NL)

SameInOrder(a, b) ==
    /\ Len(a) = Len(b)
    /\ \A i \in 1..Len(b) : a[i].section = b[i].section /\ a[i].pairs = b[i].pairs

C1_RoundTripWritable ==
    (Saved /\ NonEmptyNamesAndKeys(sections) /\ Writable(sections)) =>
        /\ SameByName(OpenText(EmptyDoc, disk).secs, sections)
        /\ Cardinality(NamesOf(sections)) = Len(sections) =>
               SameInOrder(OpenText(EmptyDoc, disk).secs, sections)

\* Save has written a built document of two sections of one name, each with a pair.
C1_Witness ==
    /\ Saved /\ NonEmptyNamesAndKeys(sections) /\ Writable(sections)
    /\ Len(sections) = 2 /\ sections[1].section = sections[2].section
    /\ Len(sections[1].pairs) = 1 /\ Len(sections[2].pairs) = 1
    /\ sections[1].pairs # sections[2].pairs

----------------------------------------------------------------------------
(* C2: whenever what Print would emit differs from what it emitted at the  *)
(* last successful Open or Save, isModified is true; every AddSection and  *)
(* AddPair sets the flag and a successful Save clears it.                  *)
C2_FlagFollowsContent == PrintText(sections) # synced => isModified

C2_FlagSetAndCleared ==
    [][/\ (Does("ZINI_AddSection") \/ Does("ZINI_AddPair")) /\ ~crashed' => isModified'
       /\ Does("ZINI_Save") /\ last'.ret = RetTrue => ~isModified']_vars

C2_ModifiedFlag == []C2_FlagFollowsContent /\ C2_FlagSetAndCleared

----------------------------------------------------------------------------
(* C6: opening a source into an initialised document leaves one section    *)
(* for each distinct header name, holding the pair lines that followed any *)
(* header of that name, in file order; also for names longer than the      *)
(* section-name bound.                                                     *)
IsHeader(line) == line # <<>> /\ line[1] = "[" /\ StrChr(line, "]") # 0
HeaderName(line) == SubSeq(line, 2, StrChr(line, "]") - 1)
IsPairLine(line) ==
    line # <<>> /\ line[1] \notin {"[", ";"} /\ StrChr(line, "=") # 0
PairOf(line) ==
    Pair(StrNCpy(SubSeq(line, 1, StrChr(line, "=") - 1), MAX_KEY_LENGTH),
         StrNCpy(SubSeq(line, StrChr(line, "=") + 1, Len(line)), MAX_VALUE_LENGTH))

HeaderNames(lines) == {HeaderName(lines[i]) : i \in {j \in 1..Len(lines) : IsHeader(lines[j])}}

\* the pair lines that follow a header of the name, cur being the header in force
RECURSIVE PairsAfter(_, _, _)
PairsAfter(lines, name, cur) ==
    IF lines = <<>> THEN <<>>
    ELSE IF IsHeader(Head(lines))
    THEN PairsAfter(Tail(lines), name, <<HeaderName(Head(lines))>>)
    ELSE (IF IsPairLine(Head(lines)) /\ cur = <<name>> THEN <<PairOf(Head(lines))>> ELSE <<>>)
         \o PairsAfter(Tail(lines), name, cur)

C6_OneSectionPerHeader ==
    [][(Does("ZINI_Open") /\ last'.ret = RetTrue /\ sections = EmptyDoc
        /\ FOpenRead(last'.name, disk) = "ok") =>
         /\ Len(sections') = Cardinality(HeaderNames(LinesOf(disk)))
         /\ \A X \in HeaderNames(LinesOf(disk)) :
              /\ CountNamed(sections', StrNCpy(X, MAX_SECTION_LENGTH)) = 1
              /\ sections'[FindSection(sections', StrNCpy(X, MAX_SECTION_LENGTH))].pairs
                    = PairsAfter(LinesOf(disk), X, <<>>)]_vars

----------------------------------------------------------------------------
(* C9: a call with a NULL document, section, key, value, path or stream    *)
(* returns its failure signal without crashing and leaves the document as  *)
(* it was.                                                                 *)
C9_NullArgumentsFail ==
    [][(last'.nullarg /\ vars' # vars) =>
         /\ ~crashed'
         /\ last'.ret \in {RetFalse, NULL, RetVoid}
         /\ sections' = sections /\ isModified' = isModified]_vars

----------------------------------------------------------------------------
----------------------------------------------------------------------------
(* C11: Save to a destination that cannot be opened returns failure and    *)
(* leaves the flag, the document and the file as they were; Save to a      *)
(* destination that opens writes exactly what Print emits, clears the      *)
(* flag, returns success and changes nothing else in the document.         *)
C11_SaveWritesOrFails ==
    [][Does("ZINI_Save") =>
         IF last'.name = PathFile
         THEN /\ last'.ret = RetTrue
              /\ disk' = PrintText(sections)
              /\ ~isModified'
              /\ sections' = sections
              /\ ~crashed'
         ELSE /\ last'.ret = RetFalse
              /\ isModified' = isModified
              /\ sections' = sections
              /\ disk' = disk]_vars

\* Save has written a modified document with a pair over an older file.
C11_Witness ==
    /\ Did("ZINI_Save") /\ last.ret = RetTrue
    /\ TotalPairs(sections) > 0
    /\ disk = PrintText(sections) /\ ~isModified

\* Save to the refused path has failed on a modified document.
C11_WitnessFailed ==
    /\ Did("ZINI_Save") /\ last.name = PathDenied /\ last.ret = RetFalse
    /\ isModified /\ disk # NoFile

----------------------------------------------------------------------------
(* C12: AddPair always appends exactly one pair at the end of the section, *)
(* also when a pair with the key exists; GetValue(s,k) is the value of the *)
(* first pair in insertion order whose key is k; after AddPair(s,k,a) then *)
(* AddPair(s,k,b) on a section without k, GetValue(s,k) is a and the pair  *)
(* count has grown by two.                                                 *)
C12_FirstMatchWins ==
    \A s \in 1..Len(sections), k \in Keys :
        LET ps == sections[s].pairs
            at == {i \in 1..Len(ps) : ps[i].key = k}
        IN IF at = {} THEN GetValue(sections[s], k) = NULL
           ELSE \E i \in at : /\ \A j \in at : i <= j
                               /\ GetValue(sections[s], k) = ps[i].value

C12_AppendsOne ==
    [][Does("ZINI_AddPair") =>
         LET s == last'.sec IN
         /\ ~crashed'
         /\ Len(sections') = Len(sections)
         /\ sections'[s].pairs = Append(sections[s].pairs, Pair(last'.key, last'.value))
         /\ sections'[s].section = sections[s].section
         /\ \A t \in 1..Len(sections) : t # s => sections'[t] = sections[t]
         /\ (/\ Did("ZINI_AddPair") /\ last.sec = s /\ last.key = last'.key
             /\ FirstKey(sections[s], last.key) = Len(sections[s].pairs))
            => /\ GetValue(sections'[s], last'.key) = last.value
               /\ Len(sections'[s].pairs) = Len(sections[s].pairs) + 1]_vars

C12_AddPairAppends == []C12_FirstMatchWins /\ C12_AppendsOne

(* The same for sections whose pair storage was never released.            *)
C12_AppendsOneLive ==
    [][(Does("ZINI_AddPair") /\ sections[last'.sec].mem # "freed") =>
         LET s == last'.sec IN
         /\ ~crashed'
         /\ Len(sections') = Len(sections)
         /\ sections'[s].pairs = Append(sections[s].pairs, Pair(last'.key, last'.value))
         /\ sections'[s].section = sections[s].section
         /\ \A t \in 1..Len(sections) : t # s => sections'[t] = sections[t]
         /\ (/\ Did("ZINI_AddPair") /\ last.sec = s /\ last.key = last'.key
             /\ FirstKey(sections[s], last.key) = Len(sections[s].pairs))
            => /\ GetValue(sections'[s], last'.key) = last.value
               /\ Len(sections'[s].pairs) = Len(sections[s].pairs) + 1]_vars

----------------------------------------------------------------------------
(* C13: SetValue(s,k,v) on a section with no pair whose key is k, and      *)
(* SetValueEx(doc,name,k,v) when no section bears the name or the section  *)
(* has no pair with the key, change nothing: pair counts, keys, values,    *)
(* section names and the flag are as before, and no pair is created.  A    *)
(* removed pair is no pair of the section.                                 *)
HasPair(sec, k) ==
    \E i \in 1..Len(sec.pairs) : sec.pairs[i].key = k /\ ~Tombstone(sec.pairs[i])

C13_AbsentKeyNoOp ==
    [][((Does("ZINI_SetValue") \/ Does("ZINI_SetValueEx")) /\
        (last'.sec = 0 \/ ~HasPair(sections[last'.sec], last'.key))) =>
         /\ sections' = sections
         /\ isModified' = isModified
         /\ PrintText(sections') = PrintText(sections)
         /\ ~crashed']_vars

(* The same when no slot of the section, removed or not, holds the key.    *)
C13_NoSlotNoOp ==
    [][((Does("ZINI_SetValue") \/ Does("ZINI_SetValueEx")) /\
        (last'.sec = 0 \/ ~KeyExists(sections[last'.sec], last'.key))) =>
         /\ sections' = sections
         /\ isModified' = isModified
         /\ ~crashed']_vars

----------------------------------------------------------------------------
(* What a source text asks for, read line by line.                         *)

Prefix(str, n) == SubSeq(str, 1, Min(Len(str), n))

\* the section names of the headers, cut to the bound
AskedNames(text) ==
    {Prefix(X, MAX_SECTION_LENGTH - 1) : X \in HeaderNames(LinesOf(text))}

\* the pairs of the key/value lines whose most recent header with a "]" names
\* the section, in file order; cur is <<>> before the first such header
RECURSIVE PairsActive(_, _, _)
PairsActive(lines, name, cur) ==
    IF lines = <<>> THEN <<>>
    ELSE IF IsHeader(Head(lines))
    THEN PairsActive(Tail(lines), name,
                     <<Prefix(HeaderName(Head(lines)), MAX_SECTION_LENGTH - 1)>>)
    ELSE (IF IsPairLine(Head(lines)) /\ cur = <<name>>
          THEN <<Pair(Prefix(SubSeq(Head(lines), 1, StrChr(Head(lines), "=") - 1),
                             MAX_KEY_LENGTH - 1),
                      Prefix(SubSeq(Head(lines), StrChr(Head(lines), "=") + 1,
                                    Len(Head(lines))), MAX_VALUE_LENGTH - 1))>>
          ELSE <<>>) \o PairsActive(Tail(lines), name, cur)

\* all the pairs of the sections of a name, in order
RECURSIVE PairsNamed(_, _)
PairsNamed(secs, name) ==
    IF secs = <<>> THEN <<>>
    ELSE (IF Head(secs).section = name THEN Head(secs).pairs ELSE <<>>)
         \o PairsNamed(Tail(secs), name)

----------------------------------------------------------------------------
(* C14: every stored section name, key and value is at most (bound - 1)    *)
(* characters long; AddSection, AddPair, SetValue and Open store the first *)
(* (bound - 1) characters of a longer string, and none of them reports an  *)
(* error for it, whatever the length of the string.                        *)
C14_Bounded ==
    \A s \in 1..Len(sections) :
        /\ Len(sections[s].section) <= MAX_SECTION_LENGTH - 1
        /\ \A i \in 1..Len(sections[s].pairs) :
             /\ Len(sections[s].pairs[i].key) <= MAX_KEY_LENGTH - 1
             /\ Len(sections[s].pairs[i].value) <= MAX_VALUE_LENGTH - 1

C14_StoresPrefix ==
    [][/\ Does("ZINI_AddSection") =>
            /\ last'.ret = RetPtr
            /\ sections'[last'.sec].section = Prefix(last'.name, MAX_SECTION_LENGTH - 1)
       /\ Does("ZINI_AddPair") =>
            /\ last'.ret # NULL
            /\ last'.ret = RetPtr =>
                 sections'[last'.sec].pairs[Len(sections'[last'.sec].pairs)] =
                     Pair(Prefix(last'.key, MAX_KEY_LENGTH - 1),
                          Prefix(last'.value, MAX_VALUE_LENGTH - 1))
       /\ Does("ZINI_SetValue") =>
            \A i \in 1..Len(sections'[last'.sec].pairs) :
                sections[last'.sec].pairs[i].key = last'.key =>
                    sections'[last'.sec].pairs[i].value =
                        Prefix(last'.value, MAX_VALUE_LENGTH - 1)
       /\ (Does("ZINI_Open") /\ disk # NoFile /\ sections = EmptyDoc) =>
            /\ last'.ret = RetTrue
            /\ AskedNames(disk) \subseteq {sections'[i].section : i \in 1..Len(sections')}
            /\ \A N \in AskedNames(disk) :
                 \A i \in 1..Len(PairsActive(LinesOf(disk), N, <<>>)) :
                     \E j \in 1..Len(PairsNamed(sections', N)) :
                         PairsNamed(sections', N)[j] = PairsActive(LinesOf(disk), N, <<>>)[i]]_vars

C14_Truncation == []C14_Bounded /\ C14_StoresPrefix

\* Open has stored a header name, a key and a value cut to the bounds, beside
\* a pair AddPair has cut.
C14_Witness ==
    /\ \E s \in 1..Len(sections) :
          /\ sections[s].section = Rep("B", MAX_SECTION_LENGTH - 1)
          /\ Len(sections[s].pairs) = 2
          /\ sections[s].pairs[1] = Pair(Rep("k", MAX_KEY_LENGTH - 1),
                                          Rep("v", MAX_VALUE_LENGTH - 1))
          /\ sections[s].pairs[2] = Pair(<<"j">>, Rep("w", MAX_VALUE_LENGTH - 1))
    /\ Did("ZINI_Open") /\ Len(sections) = 2
    /\ sections[1].section = Rep("A", MAX_SECTION_LENGTH - 1)

----------------------------------------------------------------------------
(* C15: each section's pair storage is released at most once and is never  *)
(* used after its release: no call frees, reads or reallocates a block     *)
(* that RemoveSection has freed.                                           *)
C15_ReleasedOnce == fault \cap {"double_free", "realloc_freed"} = {}

----------------------------------------------------------------------------
(* C16: for every source text, lines longer than the line buffer included, *)
(* Open appends every key/value line to the section named by the most      *)
(* recent header line with a closing "]" before it; key/value lines before *)
(* every header are discarded; a header line without "]", a blank line, a  *)
(* ";" line and a line without "=" add nothing and leave the active        *)
(* section as it is.                                                       *)

C16_PairsFollowHeader ==
    [][(Does("ZINI_Open") /\ sections = EmptyDoc /\ FOpenRead(last'.name, disk) = "ok") =>
         /\ {sections'[i].section : i \in 1..Len(sections')} = AskedNames(disk)
         /\ \A N \in AskedNames(disk) :
              PairsNamed(sections', N) = PairsActive(LinesOf(disk), N, <<>>)]_vars

\* Open has discarded a pair line before the first header and kept the active
\* section across a header without "]".
C16_Witness ==
    /\ Did("ZINI_Open")
    /\ disk = TextOf(<< <<"k", "=", "v">>, <<"[", "A", "]">>, <<"[", "A">>,
                         <<"j", "=", "w">> >>)
    /\ Len(sections) = 1
    /\ sections[1].pairs = <<Pair(<<"j">>, <<"w">>)>>

----------------------------------------------------------------------------
(* C17: after Clean, from any reachable state, the document is as Init     *)
(* leaves it: no sections and the flag false; Clean prints its warning     *)
(* exactly when the flag was true at the call.                             *)
C17_CleanResets ==
    [][Does("ZINI_Clean") =>
         /\ sections' = EmptyDoc
         /\ ~isModified'
         /\ (last'.ret = RetWarned) = isModified]_vars

(* The part of it that holds whenever Clean returns.                       *)
C17_CleanEmpties ==
    [][(Does("ZINI_Clean") /\ ~crashed') =>
         /\ sections' = EmptyDoc
         /\ isModified' = isModified
         /\ (last'.ret = RetWarned) = isModified]_vars

====
